---- MODULE Spec2Model ----
(***************************************************************************)
(* A model of two humility commands:                                       *)
(*   readvar      (src/cmd/readvar/src/lib.rs)                             *)
(*   stackmargin  (src/cmd/stackmargin/src/lib.rs)                         *)
(* Each command is a sequential program; one action of the model is one    *)
(* step of the command that can fail or that talks to the device.  The     *)
(* device (core) is external: what it returns is chosen from bounded sets, *)
(* and every device operation may fail.  Every device operation is logged  *)
(* in ops, every println! in out.                                          *)
(***************************************************************************)
EXTENDS Integers, Sequences, FiniteSets, TLC

(***************************************************************************)
(* Bounds of the model.                                                    *)
(***************************************************************************)
\* number of tasks in the task table (the supervisor is task 0)
NumTasks == 3
\* size of every task's stack region, in 4-byte words
RegionWords == 3
\* largest number of variables one name resolves to
MaxMatches == 2

(***************************************************************************)
(* Data of the environment: the archive's layout and the target's memory   *)
(* map.  The addresses are small so that they fit TLC's integers.          *)
(***************************************************************************)
\* hubris.task_table(core): the base address of the task table
TableBase == 16
\* task.size: the size of one Task record
TaskSize == 8
\* task.lookup_member("descriptor").offset
descriptor == 4
\* taskdesc.lookup_member("initial_stack").offset
initial_stack == 4
\* address of the first TaskDesc (flash) and the size of one TaskDesc
DescBase == 256
DescSize == 16
\* base address of the first stack region
StackBase == 512
\* address of the first variable of the archive
VarBase == 64

Tasks == 0 .. NumTasks - 1
RegionSize == 4 * RegionWords

(***************************************************************************)
(* u32 values.  TLC's integers are 32-bit signed, so a u32 read from bytes *)
(* is kept as the pair <<high 16 bits, low 16 bits>>.                      *)
(***************************************************************************)
\* the conversion with b[1] taken as the most significant byte
from_be_bytes(b) == << b[1] * 256 + b[2], b[3] * 256 + b[4] >>

\* u32::from_le_bytes(b): b[1] is the least significant byte
from_le_bytes(b) == << b[4] * 256 + b[3], b[2] * 256 + b[1] >>

\* the little-endian bytes of a (small) number, as the target stores it
to_le_bytes(n) ==
    << n % 256, (n \div 256) % 256, (n \div 65536) % 256, (n \div 16777216) % 256 >>

\* a u32 pair as a number (addresses of the model are below 2^31)
U32(w) == w[1] * 65536 + w[2]

\* 0xbaddcafe
SENTINEL == << 47837, 51966 >>

\* vec![] resized with Default::default
Zeros(n) == [k \in 1 .. n |-> 0]


(***************************************************************************)
(* The archive and the target, as the commands see them.                   *)
(***************************************************************************)
\* hubris.lookup_variables(name): the name that has k definitions resolves
\* to k variables, one per module, each with its own address and size
Matches(k) ==
    [j \in 1 .. k |->
        [name |-> k, module |-> j, addr |-> VarBase + 16 * (j - 1), size |-> j]]

\* the bytes the device may hold at a variable: read_8 fills the whole buffer
VarImages(n) == { [k \in 1 .. n |-> b] : b \in {0, 171} }

\* hubris.regions(core), in the order regions.iter() visits them: one stack
\* region per task, adjacent to each other, then a region shared by two
\* tasks and a region no task owns
RegionMap ==
    [k \in 1 .. NumTasks + 2 |->
        [base  |-> StackBase + RegionSize * (k - 1),
         size  |-> RegionSize,
         tasks |-> IF k <= NumTasks THEN << k - 1 >>
                   ELSE IF k = NumTasks + 1 THEN << 0, 1 >> ELSE << >>]]

NoRegion == [base |-> 0, size |-> 0, tasks |-> << >>]

\* a sequence in the opposite order
Reversed(s) == [k \in 1 .. Len(s) |-> s[Len(s) + 1 - k]]

\* a region map of a target whose region table is damaged: one more region,
\* owned by no task, that lies over the stack regions of all tasks
OverlappingMap ==
    Append(RegionMap,
        [base |-> StackBase, size |-> RegionSize * NumTasks, tasks |-> << >>])

\* the region maps hubris.regions(core) may return: the regions of the
\* target in ascending or in descending order of their base (the order of
\* regions.iter() is the map's), and the damaged map
RegionMaps == { RegionMap, Reversed(RegionMap), OverlappingMap }

\* the Task record of task j in the target's memory: the descriptor field
\* holds the address of the task's TaskDesc
TaskRecord(j) ==
    Zeros(descriptor) \o to_le_bytes(DescBase + DescSize * j)
        \o Zeros(TaskSize - descriptor - 4)

RECURSIVE TableMemory(_)
\* the bytes of the first n records of the task table
TableMemory(n) ==
    IF n = 0 THEN << >> ELSE TableMemory(n - 1) \o TaskRecord(n - 1)

\* core.read_8(addr, buf) inside the task table: len bytes from addr
ReadTable(addr, len) ==
    SubSeq(TableMemory(NumTasks), addr - TableBase + 1, addr - TableBase + len)

\* the values the device may hold in a descriptor's initial_stack word: the
\* base of the lowest region, an address above all regions, and in every
\* region the offsets 2 and 4, the top of the region and 2 below the top
InitialStacks ==
    {StackBase, StackBase + RegionSize * (NumTasks + 3)}
        \cup { r.base + d : r \in { RegionMap[k] : k \in 1 .. NumTasks + 2 },
                            d \in {2, 4, RegionSize - 2, RegionSize} }

\* the byte patterns a stack word may hold: the sentinel as the target
\* stores it, the sentinel in the other byte order, and zeros
WordPatterns ==
    { << 254, 202, 221, 186 >>, << 186, 221, 202, 254 >>, << 0, 0, 0, 0 >> }

RECURSIVE StackImages(_)
\* the contents the device may hold in a stack of n bytes: whole words from
\* WordPatterns, then a tail that is a prefix of a pattern
StackImages(n) ==
    IF n < 4 THEN { SubSeq(w, 1, n) : w \in WordPatterns }
    ELSE { w \o t : w \in WordPatterns, t \in StackImages(n - 4) }

(***************************************************************************)
(* State.                                                                  *)
(***************************************************************************)
VARIABLES
    cmd,        \* the command that runs: "readvar" or "stackmargin"
    subargs,    \* ReadvarArgs: list, variable, decimal
    is_net,     \* core.is_net()
    task_dump,  \* hubris.task_dump()
    halted,     \* whether the device is halted
    ops,        \* the device operations issued so far, in order
    out,        \* the rows printed so far, in order
    status,     \* "running", or how the command ended: "ok", "err", "panic"
    pc,         \* the step the command is at
    variables,  \* readvar: the matches of the name
    v,          \* readvar: index of the match being dumped
    buf,        \* readvar_dump: the buffer
    regions,    \* stackmargin: the region map
    base,       \* stackmargin: task table base
    size,       \* stackmargin: number of tasks
    taskblock,  \* stackmargin: the task table block
    i,          \* stackmargin: the task of the loop
    daddr,      \* stackmargin: descriptor address of task i
    initial,    \* stackmargin: initial_stack of task i
    region,     \* stackmargin: the region find returned
    stack,      \* stackmargin: the stack bytes of task i
    o,          \* stackmargin: scan offset
    depth       \* stackmargin: the value of the scan loop

inputs == << cmd, subargs, is_net, task_dump >>
rvVars == << variables, v, buf >>
smVars == << regions, base, size, taskblock, i, daddr, initial, region, stack, o, depth >>
vars == << inputs, halted, ops, out, status, pc, rvVars, smVars >>

None == [kind |-> "None", ndx |-> 0]
Kernel == [kind |-> "Kernel", ndx |-> 0]
Task(n) == [kind |-> "Task", ndx |-> n]
Some(n) == [kind |-> "Some", ndx |-> n]

\* the command lines of readvar: --list, a name (given as the number of its
\* definitions, 0 for an unknown name), both, or neither
ReadvarArgs ==
    [list : BOOLEAN, variable : {None} \cup { Some(k) : k \in 0 .. MaxMatches },
     decimal : BOOLEAN]

NoArgs == [list |-> FALSE, variable |-> None, decimal |-> FALSE]

Init ==
    /\ \/ /\ cmd = "readvar"
          /\ subargs \in ReadvarArgs
          /\ task_dump = None
          /\ pc = "readvar"
       \/ /\ cmd = "stackmargin"
          /\ subargs = NoArgs
          /\ task_dump \in {None, Kernel} \cup { Task(n) : n \in Tasks }
          /\ pc = "regions"
    /\ is_net \in BOOLEAN
    /\ halted = FALSE
    /\ ops = << >>
    /\ out = << >>
    /\ status = "running"
    /\ variables = << >>
    /\ v = 0
    /\ buf = << >>
    /\ regions = << >>
    /\ base = 0
    /\ size = 0
    /\ taskblock = << >>
    /\ i = 0
    /\ daddr = 0
    /\ initial = 0
    /\ region = NoRegion
    /\ stack = << >>
    /\ o = 0
    /\ depth = 0

\* one device operation, as logged
DevOp(op, addr, len, ok) == [op |-> op, addr |-> addr, len |-> len, ok |-> ok]

\* the command returns (Ok, Err) or panics
End(how) == status' = how /\ pc' = "done"

(***************************************************************************)
(* readvar                                                                 *)
(***************************************************************************)
\* ReadvarArgs::from_iter_safe fails (variable conflicts with list), or no
\* variable was given, or the name is unknown
readvar_usage ==
    /\ pc = "readvar"
    /\ \/ subargs.list /\ subargs.variable # None
       \/ ~subargs.list /\ subargs.variable = None
       \/ ~subargs.list /\ subargs.variable = Some(0)
    /\ End("err")
    /\ UNCHANGED << inputs, halted, ops, out, rvVars, smVars >>

\* a listing that brackets itself with halt and run
readvar_list_halting ==
    /\ pc = "readvar"
    /\ subargs.list /\ subargs.variable = None
    /\ ops' = ops \o << DevOp("halt", 0, 0, TRUE), DevOp("run", 0, 0, TRUE) >>
    /\ out' = out \o [k \in 1 .. MaxMatches |->
                        [kind |-> "listed", var |-> Matches(MaxMatches)[k]]]
    /\ End("ok")
    /\ UNCHANGED << inputs, halted, rvVars, smVars >>

\* if subargs.list { return hubris.list_variables(); }
readvar_list ==
    /\ pc = "readvar"
    /\ subargs.list /\ subargs.variable = None
    /\ \E ok \in BOOLEAN :
        IF ok
        THEN /\ out' = out \o [k \in 1 .. MaxMatches |->
                                [kind |-> "listed", var |-> Matches(MaxMatches)[k]]]
             /\ End("ok")
        ELSE /\ out' = out
             /\ End("err")
    /\ UNCHANGED << inputs, halted, ops, rvVars, smVars >>

\* hubris.lookup_variables(variable)?
readvar_lookup ==
    /\ pc = "readvar"
    /\ ~subargs.list
    /\ subargs.variable.kind = "Some" /\ subargs.variable.ndx > 0
    /\ variables' = Matches(subargs.variable.ndx)
    /\ v' = 0
    /\ pc' = "for"
    /\ UNCHANGED << inputs, halted, ops, out, status, buf, smVars >>

\* for v in variables { readvar_dump(...)?; }  Ok(())
readvar ==
    /\ pc = "for"
    /\ IF v < Len(variables)
       THEN /\ v' = v + 1
            /\ pc' = "halt"
            /\ buf' = Zeros(variables[v + 1].size)
            /\ UNCHANGED status
       ELSE /\ End("ok")
            /\ UNCHANGED << v, buf >>
    /\ UNCHANGED << inputs, halted, ops, out, variables, smVars >>

\* let _info = core.halt()?;
dump_halt ==
    /\ pc = "halt"
    /\ \E ok \in BOOLEAN :
        /\ ops' = Append(ops, DevOp("halt", 0, 0, ok))
        /\ IF ok
           THEN halted' = TRUE /\ pc' = "read" /\ UNCHANGED status
           ELSE halted' = halted /\ End("err")
    /\ UNCHANGED << inputs, out, rvVars, smVars >>

\* the address of the first match, whatever the match being dumped
ReadAddr_first_match == variables[1].addr

\* the address readvar_dump reads at: variable.addr
ReadAddr == variables[v].addr

\* core.read_8(variable.addr, buf.as_mut_slice())?;
dump_read ==
    /\ pc = "read"
    /\ \E ok \in BOOLEAN :
        /\ ops' = Append(ops, DevOp("read_8", ReadAddr, Len(buf), ok))
        /\ IF ok
           THEN /\ buf' \in VarImages(Len(buf))
                /\ pc' = "run"
                /\ UNCHANGED status
           ELSE /\ buf' = buf
                /\ End("err")
    /\ UNCHANGED << inputs, halted, out, variables, v, smVars >>

\* core.run()?;
dump_run ==
    /\ pc = "run"
    /\ \E ok \in BOOLEAN :
        /\ ops' = Append(ops, DevOp("run", 0, 0, ok))
        /\ IF ok
           THEN halted' = FALSE /\ pc' = "print" /\ UNCHANGED status
           ELSE halted' = halted /\ End("err")
    /\ UNCHANGED << inputs, out, rvVars, smVars >>

\* hubris.printfmt(&buf, variable.goff, &fmt)?; println!(...); Ok(())
dump_print ==
    /\ pc = "print"
    /\ cmd = "readvar"
    /\ \E ok \in BOOLEAN :
        IF ok
        THEN /\ out' = Append(out,
                    [kind |-> "var", name |-> variables[v].name,
                     addr |-> variables[v].addr,
                     dumped |-> [bytes |-> buf, hex |-> ~subargs.decimal]])
             /\ pc' = "for"
             /\ UNCHANGED status
        ELSE /\ out' = out
             /\ End("err")
    /\ UNCHANGED << inputs, halted, ops, rvVars, smVars >>


(***************************************************************************)
(* stackmargin                                                             *)
(***************************************************************************)
\* let regions = hubris.regions(core)?;
sm_regions ==
    /\ pc = "regions"
    /\ \E ok \in BOOLEAN :
        /\ ops' = Append(ops, DevOp("regions", 0, 0, ok))
        /\ IF ok
           THEN regions' \in RegionMaps /\ pc' = "task_table" /\ UNCHANGED status
           ELSE regions' = regions /\ End("err")
    /\ UNCHANGED << inputs, halted, out, rvVars, base, size, taskblock, i, daddr,
                    initial, region, stack, o, depth >>

\* let (base, size) = hubris.task_table(core)?;
sm_task_table ==
    /\ pc = "task_table"
    /\ \E ok \in BOOLEAN :
        /\ ops' = Append(ops, DevOp("task_table", 0, 0, ok))
        /\ IF ok
           THEN base' = TableBase /\ size' = NumTasks /\ pc' = "structs"
                /\ UNCHANGED status
           ELSE base' = base /\ size' = size /\ End("err")
    /\ UNCHANGED << inputs, halted, out, rvVars, regions, taskblock, i, daddr,
                    initial, region, stack, o, depth >>

\* lookup_struct_byname("Task")?, ("TaskDesc")?; taskblock.resize_with(...)
sm_structs ==
    /\ pc = "structs"
    /\ \E ok \in BOOLEAN :
        IF ok
        THEN taskblock' = Zeros(TaskSize * size) /\ pc' = "taskblock"
             /\ UNCHANGED status
        ELSE taskblock' = taskblock /\ End("err")
    /\ UNCHANGED << inputs, halted, ops, out, rvVars, regions, base, size, i, daddr,
                    initial, region, stack, o, depth >>

\* taskblock with the len bytes read at addr copied in at offset offs
Fill(block, offs, addr, len) ==
    [k \in 1 .. Len(block) |->
        IF k > offs /\ k <= offs + len THEN ReadTable(addr, len)[k - offs]
        ELSE block[k]]

\* the slice of the task table that is read: << offset in taskblock, length >>
\* the slice of a restricted session taken at the first record
TableSlice_first_record ==
    IF task_dump.kind = "Task" THEN << 0, TaskSize >>
    ELSE IF is_net THEN << TaskSize, Len(taskblock) - TaskSize >>
    ELSE << 0, Len(taskblock) >>

TableSlice ==
    IF task_dump.kind = "Task" THEN << task_dump.ndx * TaskSize, TaskSize >>
    ELSE IF is_net THEN << TaskSize, Len(taskblock) - TaskSize >>
    ELSE << 0, Len(taskblock) >>

\* if let Some(HubrisTask::Task(i)) = task_dump { core.read_8(...)? }
\* else if core.is_net() { core.read_8(...)? } else { core.read_8(...)? }
sm_taskblock ==
    /\ pc = "taskblock"
    /\ \E ok \in BOOLEAN :
        LET offs == TableSlice[1]
            len  == TableSlice[2]
            addr == base + offs
        IN  /\ ops' = Append(ops, DevOp("read_8", addr, len, ok))
            /\ IF ok
               THEN /\ taskblock' = Fill(taskblock, offs, addr, len)
                    /\ pc' = "members"
                    /\ UNCHANGED status
               ELSE /\ taskblock' = taskblock
                    /\ End("err")
    /\ UNCHANGED << inputs, halted, out, rvVars, regions, base, size, i, daddr,
                    initial, region, stack, o, depth >>

\* lookup_member("descriptor")?, ("initial_stack")?; println!(header)
sm_members ==
    /\ pc = "members"
    /\ \E ok \in BOOLEAN :
        IF ok
        THEN /\ out' = Append(out, [kind |-> "header"])
             /\ i' = 0
             /\ pc' = "task"
             /\ UNCHANGED status
        ELSE /\ out' = out
             /\ i' = i
             /\ End("err")
    /\ UNCHANGED << inputs, halted, ops, rvVars, regions, base, size, taskblock,
                    daddr, initial, region, stack, o, depth >>

\* the skip test without the task index
SkipSupervisor_every_task == is_net

\* if core.is_net() && i == 0
SkipSupervisor == is_net /\ i = 0

\* hubris.lookup_module(HubrisTask::Task(i))? succeeds for every i below the
\* table size: the archive is validated against the target before the
\* command runs, so it has a module for each task of the table.
\* for i in 0..size { skip the tasks not selected; lookup_module;
\*   the supervisor over the network gets the "unknown" row } ... Ok(())
sm_task ==
    /\ pc = "task"
    /\ IF i >= size
       THEN /\ End("ok")
            /\ UNCHANGED << i, out >>
       ELSE IF task_dump.kind = "Task" /\ task_dump.ndx # i
       THEN /\ i' = i + 1
            /\ UNCHANGED << out, status, pc >>
       ELSE IF SkipSupervisor
       THEN /\ out' = Append(out, [kind |-> "unknown", id |-> i])
            /\ i' = i + 1
            /\ UNCHANGED << status, pc >>
       ELSE /\ pc' = "read_initial"
            /\ UNCHANGED << i, out, status >>
    /\ UNCHANGED << inputs, halted, ops, rvVars, regions, base, size, taskblock,
                    daddr, initial, region, stack, o, depth >>

\* |o| u32::from_le_bytes(taskblock[o..o + 4].try_into().unwrap())
taskblock32(off) == from_le_bytes(SubSeq(taskblock, off + 1, off + 4))

\* let daddr = taskblock32(offs + descriptor);
\* let initial = core.read_word_32(daddr + initial_stack)?;
sm_read_initial ==
    /\ pc = "read_initial"
    /\ LET offs == i * TaskSize
           d    == U32(taskblock32(offs + descriptor))
       IN  /\ daddr' = d
           /\ \E ok \in BOOLEAN :
                /\ ops' = Append(ops, DevOp("read_word_32", d + initial_stack, 4, ok))
                /\ IF ok
                   THEN /\ initial' \in InitialStacks
                        /\ pc' = "find"
                        /\ UNCHANGED status
                   ELSE /\ initial' = initial
                        /\ End("err")
    /\ UNCHANGED << inputs, halted, out, rvVars, regions, base, size, taskblock, i,
                    region, stack, o, depth >>

\* the containment test without the upper bound
Contains_high_unbounded(r, addr) == addr > r.base

\* the containment test with the low boundary included
Contains_low_inclusive(r, addr) == addr >= r.base /\ addr <= r.base + r.size

\* addr > region.base && addr <= region.base + region.size
Contains(r, addr) == addr > r.base /\ addr <= r.base + r.size

RECURSIVE FindFrom_from_second(_, _)
\* the lookup that begins at the region after the one it is given
FindFrom_from_second(k, addr) ==
    IF k >= Len(regions) THEN 0
    ELSE IF Contains(regions[k + 1], addr) THEN k + 1
    ELSE FindFrom_from_second(k + 1, addr)

RECURSIVE FindFrom(_, _)
\* for (_, region) in regions.iter() { if ... { return Ok(region) } }: the
\* index of the first region from k on that contains addr, 0 when none does
FindFrom(k, addr) ==
    IF k > Len(regions) THEN 0
    ELSE IF Contains(regions[k], addr) THEN k
    ELSE FindFrom(k + 1, addr)

\* let region = find(initial)?;
sm_find ==
    /\ pc = "find"
    /\ LET k == FindFrom(1, initial)
       IN  IF k = 0
           THEN region' = region /\ End("err")
           ELSE region' = regions[k] /\ pc' = "validate" /\ UNCHANGED status
    /\ UNCHANGED << inputs, halted, ops, out, rvVars, regions, base, size, taskblock,
                    i, daddr, initial, stack, o, depth >>

\* the ownership test that lets every region pass
Mismatched_never(r, task) == FALSE

\* the ownership test that only counts the owners
Mismatched_count_only(r, task) == Len(r.tasks) # 1

\* region.tasks.len() != 1 || region.tasks[0] != module.task
Mismatched(r, task) == Len(r.tasks) # 1 \/ r.tasks[1] # task

\* if mismatched { bail!(...) }
sm_validate ==
    /\ pc = "validate"
    /\ IF Mismatched(region, i)
       THEN End("err")
       ELSE pc' = "read_stack" /\ UNCHANGED status
    /\ UNCHANGED << inputs, halted, ops, out, rvVars, smVars >>

\* let size = (initial - region.base) as usize; stack.resize_with(size, ..);
\* core.read_8(region.base, stack.as_mut_slice())?;  let mut o = 0;
\* the stack read that goes on to the scan after a failed read
sm_read_stack_ignoring_error ==
    /\ pc = "read_stack"
    /\ LET sz == initial - region.base
       IN  \E ok \in BOOLEAN :
            /\ ops' = Append(ops, DevOp("read_8", region.base, sz, ok))
            /\ stack' \in (IF ok THEN StackImages(sz) ELSE { Zeros(sz) })
            /\ o' = 0
            /\ pc' = "scan"
            /\ UNCHANGED status
    /\ UNCHANGED << inputs, halted, out, rvVars, regions, base, size, taskblock, i,
                    daddr, initial, region, depth >>

sm_read_stack ==
    /\ pc = "read_stack"
    /\ LET sz == initial - region.base
       IN  \E ok \in BOOLEAN :
            /\ ops' = Append(ops, DevOp("read_8", region.base, sz, ok))
            /\ IF ok
               THEN /\ stack' \in StackImages(sz)
                    /\ o' = 0
                    /\ pc' = "scan"
                    /\ UNCHANGED status
               ELSE /\ stack' = Zeros(sz)
                    /\ o' = o
                    /\ End("err")
    /\ UNCHANGED << inputs, halted, out, rvVars, regions, base, size, taskblock, i,
                    daddr, initial, region, depth >>

\* the break value with the word just read counted twice
BreakValue_extra_word(sz, off) == sz - off + 4

\* break size - o
BreakValue(sz, off) == sz - off

\* the loop test that stops one word early
ScanStops_word_early(c, off, sz) == c # SENTINEL \/ off + 8 >= sz

\* c != 0xbaddcafe || o + 4 >= size
ScanStops(c, off, sz) == c # SENTINEL \/ off + 4 >= sz

\* u32::from_le_bytes(stack[o..o + 4].try_into().unwrap())
ScanWord(stk, off) == from_le_bytes(SubSeq(stk, off + 1, off + 4))

\* an iteration that, when fewer than 4 bytes remain, compares them with the
\* first bytes of the sentinel and counts them as unused when they match
sm_scan_counting_tail ==
    /\ pc = "scan"
    /\ IF o + 4 > Len(stack)
       THEN /\ depth' = IF SubSeq(stack, o + 1, Len(stack))
                            = SubSeq(<< 254, 202, 221, 186 >>, 1, Len(stack) - o)
                         THEN 0 ELSE Len(stack) - o
            /\ pc' = "print"
            /\ UNCHANGED << o, status >>
       ELSE IF ScanStops(ScanWord(stack, o), o, Len(stack))
       THEN /\ depth' = BreakValue(Len(stack), o)
            /\ pc' = "print"
            /\ UNCHANGED << o, status >>
       ELSE /\ o' = o + 4
            /\ UNCHANGED << depth, status, pc >>
    /\ UNCHANGED << inputs, halted, ops, out, rvVars, regions, base, size, taskblock,
                    i, daddr, initial, region, stack >>

\* one iteration of: let depth = loop { let c = u32::from_le_bytes(
\*   stack[o..o + 4]...); if c != 0xbaddcafe || o + 4 >= size { break size - o; }
\*   o += 4; };   stack[o..o + 4] panics when o + 4 > stack.len()
sm_scan ==
    /\ pc = "scan"
    /\ IF o + 4 > Len(stack)
       THEN /\ End("panic")
            /\ UNCHANGED << o, depth >>
       ELSE IF ScanStops(ScanWord(stack, o), o, Len(stack))
       THEN /\ depth' = BreakValue(Len(stack), o)
            /\ pc' = "print"
            /\ UNCHANGED << o, status >>
       ELSE /\ o' = o + 4
            /\ UNCHANGED << depth, status, pc >>
    /\ UNCHANGED << inputs, halted, ops, out, rvVars, regions, base, size, taskblock,
                    i, daddr, initial, region, stack >>

\* the loop leaves at offset off: it breaks there, or the slice panics
ScanExits(stk, off) ==
    off + 4 > Len(stk) \/ ScanStops(ScanWord(stk, off), off, Len(stk))

\* the whole loop on the buffer stk, o starting at 0 and advancing by 4 to
\* the first offset where the loop leaves: the depth it breaks with, or -1
\* when it panics there
ScanLoop(stk) ==
    LET offs == { 4 * k : k \in 0 .. (Len(stk) \div 4) }
        e == CHOOSE x \in offs :
                /\ ScanExits(stk, x)
                /\ \A y \in offs : y < x => ~ScanExits(stk, y)
    IN  IF e + 4 > Len(stk) THEN -1 ELSE BreakValue(Len(stk), e)

\* println!(i, module.name, region.base, size, depth, size - depth)
Row(id, r, sz, d) ==
    [kind |-> "row", id |-> id, base |-> r.base, size |-> sz, depth |-> d,
     margin |-> sz - d]

\* the println! that ends the loop body: the locals of the body go out of
\* scope and the loop goes on with the next task
sm_print ==
    /\ pc = "print"
    /\ cmd = "stackmargin"
    /\ out' = Append(out, Row(i, region, Len(stack), depth))
    /\ i' = i + 1
    /\ pc' = "task"
    /\ daddr' = 0 /\ initial' = 0 /\ region' = NoRegion
    /\ stack' = << >> /\ o' = 0 /\ depth' = 0
    /\ UNCHANGED << inputs, halted, ops, status, rvVars, regions, base, size,
                    taskblock >>

Next ==
    \/ readvar_usage
    \/ readvar_list
    \/ readvar_lookup
    \/ readvar
    \/ dump_halt
    \/ dump_read
    \/ dump_run
    \/ dump_print
    \/ sm_regions
    \/ sm_task_table
    \/ sm_structs
    \/ sm_taskblock
    \/ sm_members
    \/ sm_task
    \/ sm_read_initial
    \/ sm_find
    \/ sm_validate
    \/ sm_read_stack
    \/ sm_scan
    \/ sm_print

Spec == Init /\ [][Next]_vars


(***************************************************************************)
(* Properties.                                                             *)
(***************************************************************************)
Terminated == status # "running"

\* the rows of tasks that stackmargin has printed
TaskRows == { k \in 1 .. Len(out) : out[k].kind = "row" }

\* the addresses the region lookup is checked on: from below the lowest
\* region to above the highest
Addresses == StackBase - 2 .. StackBase + RegionSize * (NumTasks + 3)

\* C1: in readvar, once halt() has succeeded, run() is executed on every
\* exit path of that read, the path where the byte read fails included: when
\* the command has ended, every successful halt is followed by a run.
C1_RunOnEveryExit ==
    (cmd = "readvar" /\ Terminated) =>
        \A k \in 1 .. Len(ops) :
            (ops[k].op = "halt" /\ ops[k].ok) =>
                \E m \in k + 1 .. Len(ops) : ops[m].op = "run"

\* C2: the containment test of the region lookup is exclusive at the low
\* boundary and inclusive at the high boundary: a region matches an address
\* iff base < address <= base + size (checked where find is called, for
\* every region and every address); and the region find returns for
\* initial_stack is one whose interval (base, base + size] holds it.
C2_ContainmentBoundaries ==
    /\ (cmd = "stackmargin" /\ pc = "find") =>
        \A k \in 1 .. Len(regions) : \A a \in Addresses \cup {initial} :
            LET r == regions[k]
            IN  /\ Contains(r, a) <=> (r.base < a /\ a <= r.base + r.size)
                /\ a = r.base => ~Contains(r, a)
                /\ a = r.base + r.size => Contains(r, a)
    /\ (cmd = "stackmargin" /\ pc \in {"validate", "read_stack", "scan", "print"}) =>
        /\ region.base < initial
        /\ initial <= region.base + region.size

\* C2 witness: find has returned the region whose top is initial_stack,
\* although initial_stack is also the base of the next region
C2_Witness ==
    /\ pc = "validate"
    /\ initial = region.base + region.size
    /\ \E k \in 1 .. Len(regions) :
        regions[k].base = initial /\ regions[k] # region

\* C3: every task row printed has 0 <= depth <= size and
\* margin = size - depth, hence 0 <= margin <= size.
C3_DepthAndMargin ==
    \A k \in TaskRows :
        /\ 0 <= out[k].depth /\ out[k].depth <= out[k].size
        /\ out[k].margin = out[k].size - out[k].depth
        /\ 0 <= out[k].margin /\ out[k].margin <= out[k].size

\* C3 witness: a row with part of the stack used and part of it unused, of a
\* stack whose size is not a multiple of 4
C3_Witness ==
    \E k \in TaskRows :
        /\ 0 < out[k].margin /\ out[k].margin < out[k].size
        /\ out[k].size % 4 # 0


\* C4: a region whose owner set is not exactly the task being processed
\* makes stackmargin fail as a whole: the command does not get past the
\* ownership validation of that task, it ends with an error, and no row of
\* that task or of a later task is printed (rows of earlier tasks may be).
C4_OwnershipMismatchAborts ==
    (cmd = "stackmargin" /\ region # NoRegion /\ region.tasks # << i >>) =>
        /\ pc \in {"validate", "done"}
        /\ pc = "done" => status = "err"
        /\ \A k \in 2 .. Len(out) : out[k].id < i

\* C4 witness: the command has failed on the region of the second task,
\* after the row of the first task, with a task left
C4_Witness ==
    /\ cmd = "stackmargin" /\ pc = "done" /\ status = "err"
    /\ region # NoRegion /\ region.tasks # << i >>
    /\ i = 1 /\ i + 1 < size
    /\ TaskRows # {}

C6_ListTouchesNoDevice ==
    (cmd = "readvar" /\ subargs.list /\ subargs.variable = None) =>
        (ops = << >> /\ halted = FALSE)

\* C6 witness: the listing has been printed
C6_Witness ==
    /\ cmd = "readvar" /\ subargs.list
    /\ status = "ok"
    /\ Len(out) = MaxMatches
    /\ \A k \in 1 .. Len(out) : out[k].kind = "listed"


\* the number of device operations of one kind issued so far
Count(op) == Cardinality({ k \in 1 .. Len(ops) : ops[k].op = op })

\* halt, read, run: the bracket of one readvar_dump
Bracket == << "halt", "read_8", "run" >>

SentinelBytes == << 254, 202, 221, 186 >>

\* the first n bytes of stk repeat the sentinel
SentinelPrefix(stk, n) ==
    \A k \in 1 .. n : stk[k] = SentinelBytes[((k - 1) % 4) + 1]

\* the step that prints a task row
PrintsRow == cmd = "stackmargin" /\ pc = "print"

SentinelUpTo(stk, n) ==
    /\ n % 4 = 0
    /\ n + 4 <= Len(stk)
    /\ SentinelPrefix(stk, n)
    /\ SubSeq(stk, n + 1, n + 4) # SentinelBytes

\* the stack image of the documented example: 1024 bytes, the first 768 the
\* sentinel, the other 256 zero
ExampleImage ==
    [k \in 1 .. 1024 |-> IF k <= 768 THEN SentinelBytes[((k - 1) % 4) + 1] ELSE 0]

\* the row the command computes for the example: region base 0x20001000
ExampleRow ==
    Row(0, [base |-> 536875008, size |-> 1024, tasks |-> << 0 >>], 1024,
        ScanLoop(ExampleImage))

\* C10: if the first k bytes of a task's stack image (k a multiple of 4,
\* 0 <= k < size) are sentinel words and the word at offset k is not the
\* sentinel, the scan does not panic and the row printed has stack base =
\* region.base, depth = size - k and margin = k; base 0x20001000, size 1024
\* and 768 sentinel bytes give depth 256 and margin 768.
C10_DepthFromFirstUsedWord ==
    /\ ExampleRow = [kind |-> "row", id |-> 0, base |-> 536875008, size |-> 1024,
                     depth |-> 256, margin |-> 768]
    /\ [][ (PrintsRow => depth = ScanLoop(stack)) /\ \A k \in 0 .. Len(stack) :
            (cmd = "stackmargin" /\ SentinelUpTo(stack, k)) =>
                /\ pc = "scan" => status' = "running"
                /\ pc = "print" =>
                    out' = Append(out,
                        [kind |-> "row", id |-> i, base |-> region.base,
                         size |-> Len(stack), depth |-> Len(stack) - k,
                         margin |-> k]) ]_vars

\* C10 witness: the scan has ended on a stack of which the first word is
\* the sentinel and the second is not, with words left after it
C10_Witness ==
    /\ PrintsRow
    /\ SentinelUpTo(stack, 4)
    /\ Len(stack) >= 12
    /\ depth = Len(stack) - 4
    /\ region.base = StackBase + RegionSize * i


\* the last element of a non-empty sequence
Last(s) == s[Len(s)]

\* the device operations that read memory
Reads == { "read_8", "read_word_32" }

\* C11: stackmargin performs its device reads as a scoped read: the device
\* is halted before the reads, so that the target cannot run between the
\* reads that produce one task's row (after the read of initial_stack and
\* before the read of the stack bytes the device is halted), and it is
\* released when the command ends.
C11_ReadsInsideHaltBracket ==
    cmd = "stackmargin" =>
        /\ pc \in {"find", "validate", "read_stack"} => halted
        /\ Terminated => ~halted

\* a is in the interval (base, base + size] of region r
InInterval(r, a) == r.base < a /\ a <= r.base + r.size

\* the intervals of the regions of a map are pairwise disjoint
Disjoint(regs) ==
    \A j, k \in 1 .. Len(regs) :
        j # k => \/ regs[j].base + regs[j].size <= regs[k].base
                 \/ regs[k].base + regs[k].size <= regs[j].base

\* C12: for pairwise disjoint regions and any address, the region lookup
\* returns the one region whose interval (base, base + size] contains the
\* address, whatever the order of the region map, and fails exactly when no
\* region contains the address.
C12_LookupReturnsTheContainingRegion ==
    [][ (cmd = "stackmargin" /\ pc = "find" /\ Disjoint(regions)) =>
            LET S == { k \in 1 .. Len(regions) : InInterval(regions[k], initial) }
            IN  /\ Cardinality(S) <= 1
                /\ S = {} => (status' = "err" /\ pc' = "done" /\ region' = region)
                /\ S # {} =>
                    /\ status' = "running" /\ pc' = "validate"
                    /\ \A k \in S : region' = regions[k] ]_vars

\* C12 witness: in a map that is visited in descending order, the lookup
\* has returned the region of a task that is not the first
C12_Witness ==
    /\ cmd = "stackmargin" /\ pc = "validate"
    /\ Disjoint(regions)
    /\ regions = Reversed(RegionMap)
    /\ i >= 1 /\ region.tasks = << i >>
    /\ InInterval(region, initial)


\* the number of consecutive whole words of stk, from offset 0, that are
\* the sentinel
SentinelWords(stk) ==
    CHOOSE n \in 0 .. (Len(stk) \div 4) :
        /\ SentinelPrefix(stk, 4 * n)
        /\ \A m \in n + 1 .. (Len(stk) \div 4) : ~SentinelPrefix(stk, 4 * m)

\* C13: for every stack buffer the scan computes depth = size - scanned,
\* where scanned is 4 times the number of consecutive whole words, from
\* offset 0, that equal the sentinel; margin = scanned.
C13_DepthIsSizeMinusScanned ==
    PrintsRow =>
        /\ depth = Len(stack) - 4 * SentinelWords(stack)
        /\ Row(i, region, Len(stack), depth).margin = 4 * SentinelWords(stack)


\* the regions of the map
RegionSet == { regions[k] : k \in 1 .. Len(regions) }

\* C14: for each task that is not skipped the steps come in the order
\* descriptor address from the table block, live read of initial_stack,
\* region lookup, ownership validation, size, read of the stack bytes, scan,
\* row: the initial_stack word is read at the descriptor address of the
\* table block; the stack bytes are read only after the lookup and the
\* ownership validation of that task's region have succeeded, size bytes at
\* the region's base; the row is printed only after the stack read has
\* succeeded.
C14_StepsInOrder ==
    [][ cmd = "stackmargin" =>
            /\ (ops' # ops /\ Last(ops').op = "read_word_32") =>
                /\ Len(ops') = Len(ops) + 1
                /\ Last(ops').addr = DescBase + DescSize * i + initial_stack
                /\ Last(ops).ok
            /\ (ops' # ops /\ Last(ops').op = "read_8" /\ Len(ops) >= 3) =>
                /\ Len(ops') = Len(ops) + 1
                /\ Last(ops).op = "read_word_32" /\ Last(ops).ok
                /\ region \in RegionSet
                /\ InInterval(region, initial)
                /\ region.tasks = << i >>
                /\ Last(ops').addr = region.base
                /\ Last(ops').len = initial - region.base
            /\ (out' # out /\ Last(out').kind = "row") =>
                /\ out' = Append(out, Last(out'))
                /\ ops' = ops
                /\ Last(ops).op = "read_8" /\ Last(ops).ok
                /\ Last(ops).addr = Last(out').base
                /\ Last(ops).len = Last(out').size
                /\ ops[Len(ops) - 1].op = "read_word_32"
                /\ Last(out').id = i ]_vars

\* C14 witness: the row of a task has been printed, after the read of its
\* initial_stack and the read of its stack, and the loop is at a later task
C14_Witness ==
    /\ cmd = "stackmargin" /\ pc = "task" /\ i >= 2
    /\ Last(out).kind = "row" /\ Last(out).id = i - 1
    /\ Last(ops).op = "read_8" /\ Last(ops).ok
    /\ Last(ops).addr = Last(out).base
    /\ ops[Len(ops) - 1].op = "read_word_32"

\* C20: for every stack size the command can compute and every stack
\* content, each 4-byte word the scan loop reads lies inside the buffer
\* (o + 4 <= size at every read): the scan never indexes out of bounds.
C20_ScanStaysInBounds ==
    cmd = "stackmargin" =>
        /\ pc = "scan" => o + 4 <= Len(stack)
        /\ status # "panic"


\* the byte ranges [a, a + n) and [b, b + m) share an address
Overlap(a, n, b, m) == a < b + m /\ b < a + n

\* the read operations issued so far, by position
ReadOps == { k \in 1 .. Len(ops) : ops[k].op \in Reads }

\* positions in the loop body that follow the skip tests of a task
InBody == pc \in {"read_initial", "find", "validate", "read_stack", "scan", "print"}

\* C15: on a network session the command never issues a device read that
\* targets the supervisor's memory, whatever the task restriction: no read
\* covers the record of task 0 in the task table, no read of the
\* initial_stack word of task 0's descriptor is issued, and the loop body
\* is never entered for task 0.
C15_NoSupervisorReadOnNet ==
    (cmd = "stackmargin" /\ is_net) =>
        /\ \A k \in ReadOps :
            /\ ~Overlap(ops[k].addr, ops[k].len, TableBase, TaskSize)
            /\ ~Overlap(ops[k].addr, ops[k].len, DescBase, DescSize)
        /\ InBody => i # 0

\* C16: in a session restricted to task n the table read covers exactly
\* the record of n, the loop body runs for n only, every later read is the
\* initial_stack word of n's descriptor or starts at the base of a region
\* owned by n alone, and at most one row, with id n, is printed.
C16_RestrictedToOneTask ==
    (cmd = "stackmargin" /\ task_dump.kind = "Task") =>
        LET n == task_dump.ndx
        IN  /\ Len(ops) >= 3 =>
                /\ ops[3].op = "read_8"
                /\ ops[3].addr = TableBase + n * TaskSize
                /\ ops[3].len = TaskSize
            /\ \A k \in 4 .. Len(ops) :
                /\ ops[k].op = "read_word_32" =>
                       ops[k].addr = DescBase + DescSize * n + initial_stack
                /\ ops[k].op = "read_8" =>
                       \E r \in RegionSet : r.tasks = << n >> /\ r.base = ops[k].addr
            /\ InBody => i = n
            /\ \A k \in 2 .. Len(out) : out[k].id = n
            /\ Len(out) <= 2

\* C16 witness: a session restricted to the last task has ended with the
\* row of that task
C16_Witness ==
    /\ cmd = "stackmargin" /\ task_dump = Task(NumTasks - 1)
    /\ status = "ok"
    /\ Len(out) = 2 /\ out[2].kind = "row" /\ out[2].id = NumTasks - 1
    /\ Len(ops) = 5

\* C17: a failed device read ends the command in the same step, with an
\* error and without output; after the end no further step is taken, so no
\* further read is issued and no further row is printed.
C17_FailedReadAborts ==
    [][ /\ status = "running"
        /\ (ops' # ops /\ Last(ops').op \in Reads /\ ~Last(ops').ok) =>
            /\ status' = "err" /\ pc' = "done"
            /\ out' = out ]_vars

\* C17 witness: the stack read of a task failed after the row of an earlier
\* task was printed and with tasks left to process
C17_Witness ==
    /\ cmd = "stackmargin" /\ status = "err"
    /\ Last(ops).op = "read_8" /\ ~Last(ops).ok /\ Len(ops) > 3
    /\ TaskRows # {}
    /\ i + 1 < size

\* C18: when the address lies in the containment interval of more than one
\* region the lookup fails with an error.
C18_OverlapFails ==
    [][ (/\ cmd = "stackmargin" /\ pc = "find"
         /\ Cardinality({ k \in 1 .. Len(regions) :
                            InInterval(regions[k], initial) }) > 1) =>
            (status' = "err" /\ pc' = "done") ]_vars

\* C19: once the lookup and the ownership validation of a task have
\* succeeded, size = initial_stack - region.base is between 1 and
\* region.size; the stack read starts at region.base, stays below
\* region.base + region.size and shares no address with a region disjoint
\* from the task's region.
C19_StackReadInsideRegion ==
    cmd = "stackmargin" =>
        /\ pc = "read_stack" =>
            /\ 1 <= initial - region.base
            /\ initial - region.base <= region.size
        /\ pc \in {"scan", "print"} =>
            /\ Last(ops).op = "read_8"
            /\ Last(ops).addr = region.base
            /\ Last(ops).len = Len(stack)
            /\ 1 <= Last(ops).len
            /\ Last(ops).addr + Last(ops).len <= region.base + region.size
            /\ \A k \in 1 .. Len(regions) :
                ~Overlap(regions[k].base, regions[k].size, region.base, region.size)
                    => ~Overlap(Last(ops).addr, Last(ops).len,
                                regions[k].base, regions[k].size)

\* C19 witness: a stack of the full size of its region has been read
C19_Witness ==
    /\ cmd = "stackmargin" /\ pc = "scan" /\ i >= 1
    /\ Last(ops).op = "read_8" /\ Last(ops).addr = region.base
    /\ Last(ops).len = region.size

====
